---- MODULE Spec2Model ----
(***************************************************************************)
(* Model of the reconciliation engine of the company research service:     *)
(* DataAnalystAgent (src/agents/data_analyst.py) as driven by              *)
(* research_company (src/main.py).                                         *)
(*                                                                         *)
(* Python strings are sequences of one-character strings, so that strip,   *)
(* upper, lower, split, join, the substring test and startswith are        *)
(* computed and not assumed.  A Python value is a record                   *)
(*   [t |-> "none" | "str" | "list" | "int", s |-> characters,             *)
(*    l |-> list members, n |-> number].                                   *)
(***************************************************************************)
EXTENDS FiniteSets, Integers, Sequences, TLC

(* ---------------------------- Python strings --------------------------- *)

LowerAlpha == <<"a", "b", "c", "d", "e", "f", "g", "h", "i", "j", "k", "l", "m", "n", "o", "p", "q", "r", "s", "t", "u", "v", "w", "x", "y", "z">>

UpperAlpha == <<"A", "B", "C", "D", "E", "F", "G", "H", "I", "J", "K", "L", "M", "N", "O", "P", "Q", "R", "S", "T", "U", "V", "W", "X", "Y", "Z">>

Digits == {"0", "1", "2", "3", "4", "5", "6", "7", "8", "9"}

Whitespace == {" ", "\n", "\t"}

\* str.upper() on one character
UpperChar(c) ==
    IF \E i \in 1..Len(LowerAlpha) : LowerAlpha[i] = c
    THEN UpperAlpha[CHOOSE i \in 1..Len(LowerAlpha) : LowerAlpha[i] = c]
    ELSE c

\* str.lower() on one character
LowerChar(c) ==
    IF \E i \in 1..Len(UpperAlpha) : UpperAlpha[i] = c
    THEN LowerAlpha[CHOOSE i \in 1..Len(UpperAlpha) : UpperAlpha[i] = c]
    ELSE c

upper(s) == [i \in 1..Len(s) |-> UpperChar(s[i])]

lower(s) == [i \in 1..Len(s) |-> LowerChar(s[i])]

\* str.strip(): drops leading and trailing whitespace
strip(s) ==
    LET keep == {i \in 1..Len(s) : s[i] \notin Whitespace}
    IN  IF keep = {} THEN <<>>
        ELSE LET lo == CHOOSE i \in keep : \A j \in keep : i <= j
                 hi == CHOOSE i \in keep : \A j \in keep : j <= i
             IN  SubSeq(s, lo, hi)

\* Python's  p in s  on strings: p occurs in s as a substring
contains(p, s) ==
    \E i \in 1..(Len(s) - Len(p) + 1) : SubSeq(s, i, i + Len(p) - 1) = p

\* Python's  c in s  for one character c
has_char(c, s) == \E i \in 1..Len(s) : s[i] = c

startswith(s, p) == Len(p) <= Len(s) /\ SubSeq(s, 1, Len(p)) = p

\* str.replace(old, new) for one-character old and new
replace(s, old, new) == [i \in 1..Len(s) |-> IF s[i] = old THEN new ELSE s[i]]

\* str.split(d) for a one-character delimiter: always at least one piece
RECURSIVE split(_, _)
split(s, d) ==
    IF ~has_char(d, s) THEN <<s>>
    ELSE LET i == CHOOSE k \in 1..Len(s) : s[k] = d /\ \A j \in 1..(k - 1) : s[j] # d
         IN  <<SubSeq(s, 1, i - 1)>> \o split(SubSeq(s, i + 1, Len(s)), d)

\* sep.join(parts)
RECURSIVE join(_, _)
join(sep, parts) ==
    IF parts = <<>> THEN <<>>
    ELSE IF Len(parts) = 1 THEN parts[1]
    ELSE parts[1] \o sep \o join(sep, Tail(parts))

(* ---------------------------- Python values ---------------------------- *)

None == [t |-> "none", s |-> <<>>, l |-> <<>>, n |-> 0]

Str(chars) == [t |-> "str", s |-> chars, l |-> <<>>, n |-> 0]

List(members) == [t |-> "list", s |-> <<>>, l |-> members, n |-> 0]

Num(k) == [t |-> "int", s |-> <<>>, l |-> <<>>, n |-> k]

Bool(b) == [t |-> "bool", s |-> <<>>, l |-> <<>>, n |-> IF b THEN 1 ELSE 0]

\* truth value of a Python object, as tested by  if v
truthy(v) ==
    CASE v.t = "none" -> FALSE
      [] v.t = "str"  -> v.s # <<>>
      [] v.t = "list" -> v.l # <<>>
      [] v.t \in {"int", "bool"} -> v.n # 0

\* dict.get(key, default)
get(d, key, default) == IF key \in DOMAIN d THEN d[key] ELSE default

(* ------------------------- literals of the code ------------------------ *)

s_NA == <<"N", "/", "A">>
s_NOT_FOUND == <<"N", "O", "T", " ", "F", "O", "U", "N", "D">>
s_NO_INFORMATION_FOUND == <<"N", "O", " ", "I", "N", "F", "O", "R", "M", "A", "T", "I", "O", "N", " ", "F", "O", "U", "N", "D">>
s_UNKNOWN == <<"U", "N", "K", "N", "O", "W", "N">>
s_Unknown == <<"U", "n", "k", "n", "o", "w", "n">>
s_General == <<"G", "e", "n", "e", "r", "a", "l">>
s_http == <<"h", "t", "t", "p">>
s_sep == <<";", " ">>
k_Email == <<"E", "m", "a", "i", "l">>
k_Phone == <<"P", "h", "o", "n", "e">>
k_Website == <<"W", "e", "b", "s", "i", "t", "e">>
k_Address == <<"A", "d", "d", "r", "e", "s", "s">>
k_address == <<"a", "d", "d", "r", "e", "s", "s">>
k_phone == <<"p", "h", "o", "n", "e">>
k_country == <<"c", "o", "u", "n", "t", "r", "y">>
k_description == <<"d", "e", "s", "c", "r", "i", "p", "t", "i", "o", "n">>
k_industry_type == <<"i", "n", "d", "u", "s", "t", "r", "y", "_", "t", "y", "p", "e">>
INDUSTRY_TYPES ==
    <<<<"B", "u", "s", "i", "n", "e", "s", "s", " ", "a", "n", "d", " ", "M", "a", "r", "k", "e", "t", "i", "n", "g">>,
      <<"A", "u", "t", "o", "m", "o", "t", "i", "v", "e">>,
      <<"F", "i", "n", "a", "n", "c", "e", " ", "a", "n", "d", " ", "B", "a", "n", "k", "i", "n", "g", " ", "a", "n", "d", " ", "I", "n", "s", "u", "r", "a", "n", "c", "e">>,
      <<"C", "h", "e", "m", "i", "c", "a", "l">>,
      <<"E", "l", "e", "c", "t", "r", "o", "n", "i", "c", "s", " ", "a", "n", "d", " ", "H", "o", "m", "e", " ", "A", "p", "p", "l", "i", "a", "n", "c", "e">>,
      <<"E", "n", "e", "r", "g", "y", " ", "a", "n", "d", " ", "E", "n", "v", "i", "r", "o", "n", "m", "e", "n", "t">>,
      <<"T", "o", "u", "r", "i", "s", "m", " ", "a", "n", "d", " ", "H", "o", "t", "e", "l", " ", "a", "n", "d", " ", "C", "a", "t", "e", "r", "i", "n", "g">>,
      <<"G", "a", "m", "i", "n", "g", " ", "a", "n", "d", " ", "V", "i", "d", "e", "o", " ", "G", "a", "m", "e", "s">>,
      <<"M", "e", "d", "i", "c", "a", "l", " ", "a", "n", "d", " ", "H", "e", "a", "l", "t", "h", "c", "a", "r", "e">>,
      <<"G", "o", "v", "e", "r", "n", "m", "e", "n", "t", " ", "a", "n", "d", " ", "N", "P", "O">>,
      <<"L", "e", "g", "a", "l", " ", "a", "n", "d", " ", "C", "o", "n", "t", "r", "a", "c", "t", "s">>,
      <<"L", "i", "t", "e", "r", "a", "r", "y", " ", "a", "n", "d", " ", "A", "r", "t", " ", "a", "n", "d", " ", "H", "i", "s", "t", "o", "r", "y">>,
      <<"S", "o", "f", "t", "w", "a", "r", "e", " ", "a", "n", "d", " ", "I", "T">>,
      <<"T", "e", "l", "e", "c", "o", "m", "m", "u", "n", "i", "c", "a", "t", "i", "o", "n", "s">>,
      <<"E", "c", "o", "m", "m", "e", "r", "c", "e", " ", "a", "n", "d", " ", "S", "h", "i", "p", "p", "i", "n", "g">>,
      <<"T", "e", "c", "h", "n", "i", "c", "a", "l", " ", "a", "n", "d", " ", "E", "n", "g", "i", "n", "e", "e", "r", "i", "n", "g">>,
      <<"C", "e", "r", "t", "i", "f", "i", "c", "a", "t", "e", "s">>,
      <<"E", "d", "u", "c", "a", "t", "i", "o", "n", " ", "a", "n", "d", " ", "E", "-", "l", "e", "a", "r", "n", "i", "n", "g">>,
      <<"P", "a", "t", "e", "n", "t", " ", "a", "n", "d", " ", "I", "n", "t", "e", "l", "l", "e", "c", "t", "u", "a", "l", " ", "P", "r", "o", "p", "e", "r", "t", "y">>,
      <<"M", "e", "d", "i", "a", " ", "a", "n", "d", " ", "E", "n", "t", "e", "r", "t", "a", "i", "n", "m", "e", "n", "t">>,
      <<"G", "e", "n", "e", "r", "a", "l">>>>

(* ------------------- DataAnalystAgent: validity predicate -------------- *)

\* missing_phrases of _is_missing_or_incorrect; the last entry is the empty string
missing_phrases == <<s_NA, s_NOT_FOUND, s_NO_INFORMATION_FOUND, s_UNKNOWN, <<>>>>

\* variant: the phrases are compared for equality, not searched as substrings
is_missing_or_incorrect_exact(value, field) ==
    IF value.t = "none" THEN TRUE
    ELSE IF value.t = "str" THEN
        LET value_clean == upper(strip(value.s))
        IN  IF \E i \in 1..Len(missing_phrases) : missing_phrases[i] = value_clean
            THEN TRUE
            ELSE IF field = k_Email /\ (~has_char("@", value.s) \/ ~has_char(".", value.s))
            THEN TRUE
            ELSE IF field = k_Phone /\ ~(\E i \in 1..Len(value.s) : value.s[i] \in Digits)
            THEN TRUE
            ELSE IF field = k_Website /\ (~startswith(value.s, s_http) \/ ~has_char(".", value.s))
            THEN TRUE
            ELSE FALSE
    ELSE FALSE

\* _is_missing_or_incorrect(value, field): TRUE when the value is missing or incorrect
is_missing_or_incorrect(value, field) ==
    IF value.t = "none" THEN TRUE
    ELSE IF value.t = "str" THEN
        LET value_clean == upper(strip(value.s))
        IN  IF (\E i \in 1..Len(missing_phrases) : contains(missing_phrases[i], value_clean))
               \/ contains(s_NO_INFORMATION_FOUND, value_clean)
            THEN TRUE
            ELSE IF field = k_Email /\ (~has_char("@", value.s) \/ ~has_char(".", value.s))
            THEN TRUE
            ELSE IF field = k_Phone /\ ~(\E i \in 1..Len(value.s) : value.s[i] \in Digits)
            THEN TRUE
            ELSE IF field = k_Website /\ (~startswith(value.s, s_http) \/ ~has_char(".", value.s))
            THEN TRUE
            ELSE FALSE
    ELSE FALSE

(* ------------------- DataAnalystAgent: multi-value combiner ------------ *)

\* split_values(val), the helper nested in _combine_multiple_values
split_values(val) ==
    IF val.t = "list" THEN
        LET kept == SelectSeq(val.l, LAMBDA v : truthy(v) /\ v.t = "str")
        IN  [i \in 1..Len(kept) |-> strip(kept[i].s)]
    ELSE IF val.t = "str" THEN
        LET pieces == split(replace(replace(val.s, "\n", ";"), ",", ";"), ";")
            parts  == [i \in 1..Len(pieces) |-> strip(pieces[i])]
        IN  SelectSeq(parts, LAMBDA p : p # <<>>)
    ELSE <<>>

\* the deduplicating loop of _combine_multiple_values: append v unless already in combined
RECURSIVE dedup_into(_, _)
dedup_into(combined, rest) ==
    IF rest = <<>> THEN combined
    ELSE IF \E i \in 1..Len(combined) : combined[i] = Head(rest)
    THEN dedup_into(combined, Tail(rest))
    ELSE dedup_into(Append(combined, Head(rest)), Tail(rest))

\* _combine_multiple_values(g_val, l_val): a str value, or None when nothing is left
combine_multiple_values(g_val, l_val) ==
    LET g_list   == split_values(g_val)
        l_list   == split_values(l_val)
        combined == dedup_into(<<>>, g_list \o l_list)
    IN  IF combined # <<>> THEN Str(join(s_sep, combined)) ELSE None

(* ------------------- DataAnalystAgent: generative calls ---------------- *)

\* stringify_addresses(data) raises TypeError when "; ".join meets a member that is not a str
stringify_raises(data) ==
    /\ k_Address \in DOMAIN data
    /\ data[k_Address].t = "list"
    /\ \E i \in 1..Len(data[k_Address].l) : data[k_Address].l[i].t # "str"

\* stringify_addresses(data): the record shown in the prompt; data itself is not changed
stringify_addresses(data) ==
    IF k_Address \in DOMAIN data /\ data[k_Address].t = "list"
    THEN [data EXCEPT ![k_Address] =
            Str(join(s_sep, [i \in 1..Len(data[k_Address].l) |-> data[k_Address].l[i].s]))]
    ELSE data

\* which of the three prompt templates _openai_fill_field builds for a field
prompt_kind(field) ==
    IF lower(field) = k_description THEN "description"
    ELSE IF lower(field) = k_country THEN "country"
    ELSE "generic"

\* variant: the message content is used without strip()
fill_field_value_unstripped(outcome) ==
    IF outcome.ok
    THEN LET value == outcome.text
         IN  IF value # <<>> THEN Str(value) ELSE Str(s_Unknown)
    ELSE Str(s_Unknown)

\* the try/except of _openai_fill_field; outcome is what the service call did:
\* [ok |-> FALSE] an exception, [ok |-> TRUE, text |-> the message content]
fill_field_value(outcome) ==
    IF outcome.ok
    THEN LET value == strip(outcome.text)
         IN  IF value # <<>> THEN Str(value) ELSE Str(s_Unknown)
    ELSE Str(s_Unknown)

\* variant: the answer is returned without the membership test
select_industry_value_unchecked(outcome) ==
    IF outcome.ok
    THEN Str(strip(outcome.text))
    ELSE Str(s_General)

\* the try/except of _openai_select_industry
select_industry_value(outcome) ==
    IF outcome.ok
    THEN LET value == strip(outcome.text)
         IN  IF ~(\E i \in 1..Len(INDUSTRY_TYPES) : INDUSTRY_TYPES[i] = value)
             THEN Str(s_General)
             ELSE Str(value)
    ELSE Str(s_General)

(* ------------------------------ inputs --------------------------------- *)

k_Description == <<"D", "e", "s", "c", "r", "i", "p", "t", "i", "o", "n">>
k_State == <<"S", "t", "a", "t", "e">>
k_PostalCode == <<"P", "o", "s", "t", "a", "l", " ", "C", "o", "d", "e">>
k_Employees == <<"E", "m", "p", "l", "o", "y", "e", "e", "s">>
k_Country == <<"C", "o", "u", "n", "t", "r", "y">>
v_na_lower == <<"n", "/", "a">>
v_NoInfoAcme == <<"N", "o", " ", "i", "n", "f", "o", "r", "m", "a", "t", "i", "o", "n", " ", "f", "o", "u", "n", "d", " ", "f", "o", "r", " ", "A", "c", "m", "e">>
v_notanemail == <<"n", "o", "t", "a", "n", "e", "m", "a", "i", "l">>
v_valid_email == <<"v", "a", "l", "i", "d", "@", "x", ".", "c", "o", "m">>
v_phone_ok == <<"5", "5", "5", "-", "1", "2", "3", "4">>
v_abcdef == <<"a", "b", "c", "d", "e", "f">>
v_example_com == <<"e", "x", "a", "m", "p", "l", "e", ".", "c", "o", "m">>
v_https_example == <<"h", "t", "t", "p", "s", ":", "/", "/", "e", "x", "a", "m", "p", "l", "e", ".", "c", "o", "m">>
v_acme_com == <<"h", "t", "t", "p", "s", ":", "/", "/", "a", "c", "m", "e", ".", "c", "o", "m">>
v_acme_net == <<"h", "t", "t", "p", "s", ":", "/", "/", "a", "c", "m", "e", ".", "n", "e", "t">>
v_main_st == <<"1", "2", "3", " ", "M", "a", "i", "n", " ", "S", "t">>
v_oak_ave == <<"4", "5", "6", " ", "O", "a", "k", " ", "A", "v", "e">>
v_main_pine == <<"1", "2", "3", " ", "M", "a", "i", "n", " ", "S", "t", ";", " ", "7", "8", "9", " ", "P", "i", "n", "e", " ", "R", "d">>
v_contact == <<"c", "o", "n", "t", "a", "c", "t", "@", "a", "c", "m", "e", ".", "c", "o", "m">>
v_Germany == <<"G", "e", "r", "m", "a", "n", "y">>

\* longest list drawn as an input of _combine_multiple_values
MaxListLen == 2

\* keys a raw record may carry in a run of analyze_company_data
FieldKeys ==
    {k_Website, k_Email, k_Address, k_Phone, k_Employees, k_Country, k_country, k_industry_type}

\* values a raw record may hold under a key (the third-party record is parsed JSON)
FieldValues ==
    {None, Str(s_NA), Str(v_acme_com), Str(v_acme_net), Str(v_main_st), Str(v_oak_ave),
     Str(v_Germany), List(<<Str(v_main_st), Str(v_oak_ave)>>), List(<<None>>), Num(50)}

\* raw records: no key at all, or one key
RawRecords ==
    {[k \in {} |-> None]} \cup
    UNION {[{f} -> FieldValues] : f \in FieldKeys}

\* what one call of the generative service can do: raise, or return a message text
Outcomes ==
    {[ok |-> FALSE, text |-> <<>>],
     [ok |-> TRUE,  text |-> <<" ", "\n">>],
     [ok |-> TRUE,  text |-> <<" ">> \o v_contact \o <<"\n">>],
     [ok |-> TRUE,  text |-> s_NA],
     [ok |-> TRUE,  text |-> <<"S", "o", "f", "t", "w", "a", "r", "e", " ", "a", "n", "d", " ", "I", "T", "\n">>],
     [ok |-> TRUE,  text |-> <<"s", "o", "f", "t", "w", "a", "r", "e", " ", "a", "n", "d", " ", "i", "t">>]}

(* --------------------------- state machine ----------------------------- *)

VARIABLES
    pc,             \* position of the running function
    api_key,        \* DataAnalystAgent.api_key is set (TRUE) or None (FALSE)
    google_data,    \* first argument of analyze_company_data
    linkedin_data,  \* second argument of analyze_company_data
    pending,        \* fields of all_fields the loop has not visited yet
    result,         \* the dict analyze_company_data builds and returns
    origin,         \* for each key of result, where its value was taken from
    calls,          \* the generative calls made so far, in order
    args,           \* arguments of a direct call of a helper
    ret             \* what that call returned

\* state of a batch request served by research_company_endpoint
VARIABLES
    names,            \* the company names of the batch, in request order
    relevance_token,  \* RECALLRAI_AUTHORIZE_TOKEN and RECALLRAI_PROJECT_ID are set
    strict_types,     \* the installed pydantic rejects a non-str value for a str field
    co,               \* the research_company coroutine of each name
    blocked,          \* the coroutine whose synchronous call holds the event loop, or 0
    response          \* what asyncio.gather handed back to the endpoint

batch_vars == <<names, relevance_token, strict_types, co, blocked, response>>

vars == <<pc, api_key, google_data, linkedin_data, pending, result, origin, calls, args, ret,
          names, relevance_token, strict_types, co, blocked, response>>

\* the batch variables while no batch is served
NoBatch ==
    /\ names = <<>>
    /\ relevance_token = TRUE
    /\ strict_types = FALSE
    /\ co = <<>>
    /\ blocked = 0
    /\ response = [sent |-> FALSE, results |-> <<>>]

EmptyDict == [k \in {} |-> None]

\* d[key] = value on a dict
put(d, key, value) == [k \in DOMAIN d \cup {key} |-> IF k = key THEN value ELSE d[k]]

\* openai.OpenAI(api_key=None) raises when no key is configured; then
\* stringify_addresses runs on both records, outside the try block
fill_field_raises ==
    ~api_key \/ stringify_raises(google_data) \/ stringify_raises(linkedin_data)

\* variant: stringify_addresses assigns into the dict it was given, without data.copy()
callers_record_without_copy(data) == stringify_addresses(data)

\* the caller's dict after stringify_addresses(data): the function rebinds its parameter
\* to data.copy() before it assigns the joined string, so the caller's dict is as before
callers_record(data) == data

\* result[field] = self._openai_fill_field(field, google_data, linkedin_data), then to pc next
openai_fill_field(field, next) ==
    IF fill_field_raises
    THEN /\ pc' = "raised"
         /\ UNCHANGED <<google_data, linkedin_data, result, origin, calls>>
    ELSE \E outcome \in Outcomes :
         /\ google_data' = callers_record(google_data)
         /\ linkedin_data' = callers_record(linkedin_data)
         /\ result' = put(result, field, fill_field_value(outcome))
         /\ origin' = put(origin, field, "openai")
         /\ calls' = Append(calls, [fn |-> "fill_field", field |-> field,
                                    prompt |-> prompt_kind(field), outcome |-> outcome])
         /\ pc' = next

\* variant: the key is compared without lower()
is_country_case_sensitive(field) == field = k_country

\* line 189: the test that keeps a country key out of the loop
is_country(field) == lower(field) = k_country

\* line 196: the test that selects the multi-value branch
is_multi_value(field) == lower(field) \in {k_address, k_phone}

Init ==
    /\ pc = "idle"
    /\ api_key \in BOOLEAN
    /\ google_data \in RawRecords
    /\ linkedin_data \in RawRecords
    /\ DOMAIN google_data \cup DOMAIN linkedin_data \in {{}} \cup {{f} : f \in FieldKeys}
    /\ pending = {}
    /\ result = EmptyDict
    /\ origin = EmptyDict
    /\ calls = <<>>
    /\ args = <<>>
    /\ ret = None
    /\ NoBatch

\* analyze_company_data, lines 184-185
analyze_begin ==
    /\ pc = "idle"
    /\ pending' = DOMAIN google_data \cup DOMAIN linkedin_data
    /\ result' = EmptyDict
    /\ pc' = "loop"
    /\ UNCHANGED <<api_key, google_data, linkedin_data, origin, calls, args, ret>>
    /\ UNCHANGED batch_vars

\* one pass of the loop for a key whose lower-cased name is country: continue
skip_country ==
    /\ pc = "loop"
    /\ \E field \in pending :
        /\ is_country(field)
        /\ pending' = pending \ {field}
    /\ UNCHANGED <<pc, api_key, google_data, linkedin_data, result, origin, calls, args, ret>>
    /\ UNCHANGED batch_vars

\* one pass of the loop for address and phone
fuse_multi_value ==
    /\ pc = "loop"
    /\ \E field \in pending :
        /\ ~is_country(field)
        /\ is_multi_value(field)
        /\ pending' = pending \ {field}
        /\ LET g_val    == get(google_data, field, Str(s_NA))
               l_val    == get(linkedin_data, field, Str(s_NA))
               combined == combine_multiple_values(g_val, l_val)
           IN  IF truthy(combined) /\ ~is_missing_or_incorrect(combined, field)
               THEN /\ result' = put(result, field, combined)
                    /\ origin' = put(origin, field, "combined")
                    /\ UNCHANGED <<pc, calls, google_data, linkedin_data>>
               ELSE openai_fill_field(field, "loop")
    /\ UNCHANGED <<api_key, args, ret>>
    /\ UNCHANGED batch_vars

\* one pass of the loop for every other field
fuse_scalar ==
    /\ pc = "loop"
    /\ \E field \in pending :
        /\ ~is_country(field)
        /\ ~is_multi_value(field)
        /\ pending' = pending \ {field}
        /\ LET g_val == get(google_data, field, Str(s_NA))
               l_val == get(linkedin_data, field, Str(s_NA))
           IN  IF ~is_missing_or_incorrect(g_val, field)
               THEN /\ result' = put(result, field, g_val)
                    /\ origin' = put(origin, field, "google")
                    /\ UNCHANGED <<pc, calls, google_data, linkedin_data>>
               ELSE IF ~is_missing_or_incorrect(l_val, field)
               THEN /\ result' = put(result, field, l_val)
                    /\ origin' = put(origin, field, "linkedin")
                    /\ UNCHANGED <<pc, calls, google_data, linkedin_data>>
               ELSE openai_fill_field(field, "loop")
    /\ UNCHANGED <<api_key, args, ret>>
    /\ UNCHANGED batch_vars

\* line 211, after the loop
set_country ==
    /\ pc = "loop"
    /\ pending = {}
    /\ openai_fill_field(k_country, "industry")
    /\ UNCHANGED <<api_key, pending, args, ret>>
    /\ UNCHANGED batch_vars

\* lines 214-215: _openai_select_industry, then return result
set_industry ==
    /\ pc = "industry"
    /\ IF ~api_key
       THEN /\ pc' = "raised"
            /\ UNCHANGED <<result, origin, calls>>
       ELSE \E outcome \in Outcomes :
            /\ result' = put(result, k_industry_type, select_industry_value(outcome))
            /\ origin' = put(origin, k_industry_type, "openai")
            /\ calls' = Append(calls, [fn |-> "select_industry", field |-> k_industry_type,
                                       prompt |-> "industry", outcome |-> outcome])
            /\ pc' = "done"
    /\ UNCHANGED <<api_key, google_data, linkedin_data, pending, args, ret>>
    /\ UNCHANGED batch_vars

Next ==
    \/ analyze_begin
    \/ skip_country
    \/ fuse_multi_value
    \/ fuse_scalar
    \/ set_country
    \/ set_industry

Spec == Init /\ [][Next]_vars

(* ------------- direct calls of _is_missing_or_incorrect ---------------- *)

ValidityValues ==
    {None, Num(50), List(<<Str(v_main_st)>>),
     Str(<<>>), Str(<<" ", " ">>), Str(s_NA), Str(v_na_lower), Str(s_Unknown), Str(s_NOT_FOUND),
     Str(v_NoInfoAcme), Str(v_notanemail), Str(v_valid_email), Str(v_phone_ok), Str(v_abcdef),
     Str(v_example_com), Str(v_https_example), Str(v_main_st)}

ValidityFields == {k_Email, k_Phone, k_Website, k_Address, k_Description}

InitValidity ==
    /\ pc = "call"
    /\ args \in ValidityValues \X ValidityFields
    /\ ret = None
    /\ api_key = TRUE
    /\ google_data = EmptyDict
    /\ linkedin_data = EmptyDict
    /\ pending = {}
    /\ result = EmptyDict
    /\ origin = EmptyDict
    /\ calls = <<>>
    /\ NoBatch

call_is_missing_or_incorrect ==
    /\ pc = "call"
    /\ ret' = Bool(is_missing_or_incorrect(args[1], args[2]))
    /\ pc' = "returned"
    /\ UNCHANGED <<api_key, google_data, linkedin_data, pending, result, origin, calls, args>>
    /\ UNCHANGED batch_vars

NextValidity == call_is_missing_or_incorrect

SpecValidity == InitValidity /\ [][NextValidity]_vars

(* ------------- direct calls of _combine_multiple_values ---------------- *)

ListMembers == {None, Str(<<>>), Str(<<" ">>), Str(v_main_st), Str(<<" ">> \o v_oak_ave)}

CombineValues ==
    {None, Str(<<>>), Str(s_NA), Str(v_main_st), Str(v_main_pine),
     Str(v_oak_ave \o <<",", "\n">> \o v_main_st \o <<";">>)}
    \cup {List(l) : l \in UNION {[1..n -> ListMembers] : n \in 0..MaxListLen}}

InitCombine ==
    /\ pc = "call"
    /\ args \in CombineValues \X CombineValues
    /\ ret = None
    /\ api_key = TRUE
    /\ google_data = EmptyDict
    /\ linkedin_data = EmptyDict
    /\ pending = {}
    /\ result = EmptyDict
    /\ origin = EmptyDict
    /\ calls = <<>>
    /\ NoBatch

call_combine_multiple_values ==
    /\ pc = "call"
    /\ ret' = combine_multiple_values(args[1], args[2])
    /\ pc' = "returned"
    /\ UNCHANGED <<api_key, google_data, linkedin_data, pending, result, origin, calls, args>>
    /\ UNCHANGED batch_vars

NextCombine == call_combine_multiple_values

SpecCombine == InitCombine /\ [][NextCombine]_vars

(* ------------------------------ properties ----------------------------- *)

RecognizedFields ==
    {k_Description, k_Address, k_State, k_PostalCode, k_Phone, k_Email, k_Employees,
     k_Website, k_country, k_industry_type}

\* the four sentinel phrases of the documented validity rules
SentinelPhrases == {s_NA, s_NOT_FOUND, s_NO_INFORMATION_FOUND, s_UNKNOWN}

\* a str value that is valid under the documented rules: trimmed and upper-cased it is
\* non-empty and contains no sentinel phrase, and it passes the rule of its field
DocumentedValid(value, field) ==
    /\ value.t = "str"
    /\ upper(strip(value.s)) # <<>>
    /\ \A p \in SentinelPhrases : ~contains(p, upper(strip(value.s)))
    /\ field = k_Email => has_char("@", value.s) /\ has_char(".", value.s)
    /\ field = k_Phone => \E i \in 1..Len(value.s) : value.s[i] \in Digits
    /\ field = k_Website => startswith(value.s, s_http) /\ has_char(".", value.s)

\* a sentinel "missing" value of the data model
IsSentinel(value) ==
    /\ value.t = "str"
    /\ \/ upper(value.s) \in SentinelPhrases \cup {<<>>}
       \/ contains(s_NO_INFORMATION_FOUND, upper(value.s))

\* a field the loop fuses as a scalar and nothing overwrites afterwards
IsScalarField(field) ==
    /\ lower(field) \notin {k_address, k_phone, k_country}
    /\ field # k_industry_type

\* the generative service was invoked by _openai_fill_field for this field
GenerativeCalledFor(field) ==
    \E i \in 1..Len(calls) : calls[i].fn = "fill_field" /\ calls[i].field = field

\* the value of a key in a raw record is absent, None or a str that is not valid
InvalidIn(data, field) ==
    \/ field \notin DOMAIN data
    \/ data[field].t = "none"
    \/ data[field].t = "str" /\ ~DocumentedValid(data[field], field)

\* C1: when analyze_company_data has returned, every recognized field of the fused
\* record is present and holds a non-empty string.
C1_EveryRecognizedFieldNonEmpty ==
    pc = "done" =>
        \A f \in RecognizedFields :
            f \in DOMAIN result /\ result[f].t = "str" /\ result[f].s # <<>>

\* C2: when analyze_company_data has returned, no field of the fused record holds a
\* sentinel value (N/A, Not Found, No Information Found, Unknown, empty, or a text
\* containing "no information found").
C2_NoSentinelInFusedRecord ==
    pc = "done" => \A f \in DOMAIN result : ~IsSentinel(result[f])

\* C3: for a scalar field whose source A value is a valid string, the fused value is
\* source A's value and the generative service is not invoked for that field.
C3_SourceAWinsWhenValid ==
    pc = "done" =>
        \A f \in DOMAIN google_data :
            (IsScalarField(f) /\ DocumentedValid(google_data[f], f)) =>
                /\ f \in DOMAIN result
                /\ result[f] = google_data[f]
                /\ ~GenerativeCalledFor(f)

\* C4: for address and phone, a combined value that is not None and is valid is the
\* fused value, and the generative service is not invoked for that field.
C4_ValidCombinedValueUsed ==
    pc = "done" =>
        \A f \in DOMAIN google_data \cup DOMAIN linkedin_data :
            lower(f) \in {k_address, k_phone} =>
                LET combined == combine_multiple_values(get(google_data, f, Str(s_NA)),
                                                        get(linkedin_data, f, Str(s_NA)))
                IN  DocumentedValid(combined, f) =>
                        /\ f \in DOMAIN result
                        /\ result[f] = combined
                        /\ ~GenerativeCalledFor(f)

C6_CountryAlwaysGenerative ==
    pc = "done" =>
        /\ k_country \in DOMAIN result
        /\ origin[k_country] = "openai"
        /\ \A f \in DOMAIN result : lower(f) = k_country => f = k_country
        /\ LET country_calls == SelectSeq(calls, LAMBDA c : c.prompt = "country")
           IN  /\ Len(country_calls) = 1
               /\ country_calls[1].field = k_country
               /\ calls[Len(calls) - 1] = country_calls[1]
               /\ result[k_country] =
                    IF country_calls[1].outcome.ok /\ strip(country_calls[1].outcome.text) # <<>>
                    THEN Str(strip(country_calls[1].outcome.text))
                    ELSE Str(s_Unknown)

\* C6 witness: both sources carry a plausible value under the key Country, and the fused
\* record holds the service's answer under country and nothing under Country.
C6_Witness ==
    /\ pc = "done"
    /\ k_Country \in DOMAIN google_data /\ google_data[k_Country] = Str(v_Germany)
    /\ k_Country \in DOMAIN linkedin_data /\ linkedin_data[k_Country] = Str(v_Germany)
    /\ result[k_country] = Str(v_contact)
    /\ k_Country \notin DOMAIN result

\* membership in the fixed list, exact and case-sensitive
InVocabulary(chars) == \E i \in 1..Len(INDUSTRY_TYPES) : INDUSTRY_TYPES[i] = chars

\* C7: the fused industry_type is an exact member of INDUSTRY_TYPES; a failed call and an
\* answer that is not an exact member after trimming both give General, also when a raw
\* record has its own industry_type key.
C7_IndustryInVocabulary ==
    pc = "done" =>
        /\ k_industry_type \in DOMAIN result
        /\ result[k_industry_type].t = "str"
        /\ InVocabulary(result[k_industry_type].s)
        /\ origin[k_industry_type] = "openai"
        /\ LET last == calls[Len(calls)]
           IN  /\ last.fn = "select_industry"
               /\ (~last.outcome.ok \/ ~InVocabulary(strip(last.outcome.text))) =>
                    result[k_industry_type] = Str(s_General)
               /\ (last.outcome.ok /\ InVocabulary(strip(last.outcome.text))) =>
                    result[k_industry_type] = Str(strip(last.outcome.text))

\* C7 witness: a raw record has an industry_type key, the service answered with a member
\* in the wrong case, and the fused industry_type is General.
C7_Witness ==
    /\ pc = "done"
    /\ k_industry_type \in DOMAIN google_data
    /\ google_data[k_industry_type] = Num(50)
    /\ calls[Len(calls)].outcome.ok
    /\ ~InVocabulary(strip(calls[Len(calls)].outcome.text))
    /\ lower(strip(calls[Len(calls)].outcome.text)) = lower(INDUSTRY_TYPES[13])
    /\ result[k_industry_type] = Str(s_General)

\* C8: _is_missing_or_incorrect returns False for every string that is valid under the
\* documented rules, and True for notanemail as Email, abcdef as Phone and example.com
\* as Website.
C8_ValidStringsAccepted ==
    pc = "returned" =>
        /\ DocumentedValid(args[1], args[2]) => ret = Bool(FALSE)
        /\ args \in {<<Str(v_notanemail), k_Email>>, <<Str(v_abcdef), k_Phone>>,
                     <<Str(v_example_com), k_Website>>} => ret = Bool(TRUE)

\* C9: _is_missing_or_incorrect returns True for None, for an empty or whitespace-only
\* string, and for every string that contains a sentinel phrase once trimmed and
\* upper-cased, whatever the field.
C9_SentinelsInvalid ==
    (/\ pc = "returned"
     /\ \/ args[1].t = "none"
        \/ /\ args[1].t = "str"
           /\ \/ upper(strip(args[1].s)) = <<>>
              \/ \E p \in SentinelPhrases : contains(p, upper(strip(args[1].s))))
    => ret = Bool(TRUE)

\* C9 witness: the call with a text that only contains a sentinel phrase has returned True
C9_Witness ==
    /\ pc = "returned"
    /\ args = <<Str(v_NoInfoAcme), k_Description>>
    /\ ret = Bool(TRUE)

\* the parts of an input as documented: the trimmed, non-empty pieces of a string split
\* on newline, comma and semicolon; the trimmed, non-empty string members of a list
DocumentedParts(val) ==
    IF val.t = "str" THEN
        LET pieces == split(replace(replace(val.s, "\n", ";"), ",", ";"), ";")
        IN  SelectSeq([i \in 1..Len(pieces) |-> strip(pieces[i])], LAMBDA p : p # <<>>)
    ELSE IF val.t = "list" THEN
        LET members == SelectSeq(val.l, LAMBDA v : v.t = "str")
        IN  SelectSeq([i \in 1..Len(members) |-> strip(members[i].s)], LAMBDA p : p # <<>>)
    ELSE <<>>

\* the first occurrences of a sequence, in order
FirstOccurrences(parts) ==
    LET keep  == {i \in 1..Len(parts) : \A j \in 1..(i - 1) : parts[j] # parts[i]}
        nth(k) == CHOOSE i \in keep : Cardinality({j \in keep : j <= i}) = k
    IN  [k \in 1..Cardinality(keep) |-> parts[nth(k)]]

\* C10: _combine_multiple_values returns the parts of a followed by the parts of b, each
\* part once at its first occurrence, joined with "; ".
C10_CombineFirstSeenOrder ==
    pc = "returned" =>
        LET expected == FirstOccurrences(DocumentedParts(args[1]) \o DocumentedParts(args[2]))
        IN  expected # <<>> => ret = Str(join(s_sep, expected))

\* an input of the combiner that is empty or a sentinel: None, an empty list, or a string
\* that is empty or a sentinel
EmptyOrSentinel(val) ==
    \/ val.t = "none"
    \/ val.t = "list" /\ val.l = <<>>
    \/ IsSentinel(val)

\* C11: _combine_multiple_values returns None whenever both inputs are empty or sentinel
\* inputs.
C11_CombineEmptyGivesNone ==
    (pc = "returned" /\ EmptyOrSentinel(args[1]) /\ EmptyOrSentinel(args[2])) => ret = None

\* the parts of a returned string: its pieces between "; " separators
ReturnedParts(chars) ==
    LET pieces == split(chars, ";")
    IN  [i \in 1..Len(pieces) |->
            IF i > 1 /\ pieces[i] # <<>> /\ pieces[i][1] = " " THEN Tail(pieces[i]) ELSE pieces[i]]

\* C18: _combine_multiple_values returns None or a non-empty string, each of whose
\* "; "-separated parts is trimmed and non-empty.
C18_CombineNoEmptyPart ==
    pc = "returned" =>
        \/ ret = None
        \/ /\ ret.t = "str"
           /\ ret.s # <<>>
           /\ \A i \in 1..Len(ReturnedParts(ret.s)) :
                /\ ReturnedParts(ret.s)[i] # <<>>
                /\ strip(ReturnedParts(ret.s)[i]) = ReturnedParts(ret.s)[i]

\* C14: _is_missing_or_incorrect reports a value that is neither None nor a string
\* (a number, a list) as invalid.
C14_NonStringsInvalid ==
    (pc = "returned" /\ args[1].t \notin {"none", "str"}) => ret = Bool(TRUE)

\* C12: a failure of the generative service is absorbed: a failed call leaves Unknown
\* (General for the industry) in the record, and with no API key configured no exception
\* leaves analyze_company_data.
C12_GenerativeFailuresAbsorbed ==
    /\ ~api_key => pc # "raised"
    /\ (calls # <<>> /\ ~calls[Len(calls)].outcome.ok) =>
            result[calls[Len(calls)].field] =
                IF calls[Len(calls)].fn = "fill_field" THEN Str(s_Unknown) ELSE Str(s_General)

\* C15: no step of analyze_company_data changes either input record.
C15_InputsUnchanged ==
    [][google_data' = google_data /\ linkedin_data' = linkedin_data]_vars

\* C15 witness: the run has returned after a generative fallback for Address while source
\* A's Address is a list, and that Address is still the same list.
C15_Witness ==
    /\ pc = "done"
    /\ k_Address \in DOMAIN google_data
    /\ google_data[k_Address] = List(<<Str(v_main_st), Str(v_oak_ave)>>)
    /\ GenerativeCalledFor(k_Address)
    /\ result[k_Address].t = "str"
k_CompanyName == <<"C", "o", "m", "p", "a", "n", "y", " ", "N", "a", "m", "e">>
j_state == <<"s", "t", "a", "t", "e">>
j_postal_code == <<"p", "o", "s", "t", "a", "l", "_", "c", "o", "d", "e">>
j_email == <<"e", "m", "a", "i", "l">>
j_employees == <<"e", "m", "p", "l", "o", "y", "e", "e", "s">>
j_website == <<"w", "e", "b", "s", "i", "t", "e">>
v_Acme == <<"A", "c", "m", "e">>
v_Globex == <<"G", "l", "o", "b", "e", "x">>
v_Initech == <<"I", "n", "i", "t", "e", "c", "h">>
v_snippet == <<"A", "c", "m", "e", " ", "m", "a", "k", "e", "s", " ", "a", "n", "v", "i", "l", "s", ".">>
s_NoInfoPrefix == <<"N", "o", " ", "i", "n", "f", "o", "r", "m", "a", "t", "i", "o", "n", " ", "f", "o", "u", "n", "d", " ", "f", "o", "r", " ">>
s_dot == <<".">>
s_NotFoundRelevance == <<"C", "o", "m", "p", "a", "n", "y", " ", "d", "a", "t", "a", " ", "n", "o", "t", " ", "f", "o", "u", "n", "d", " ", "v", "i", "a", " ", "R", "e", "l", "e", "v", "a", "n", "c", "e", " ", "A", "I", " ", "L", "i", "n", "k", "e", "d", "I", "n">>
s_DescriptionFor == <<"D", "e", "s", "c", "r", "i", "p", "t", "i", "o", "n", " ", "f", "o", "r", " ">>
s_FromRelevance == <<" ", "(", "f", "r", "o", "m", " ", "R", "e", "l", "e", "v", "a", "n", "c", "e", " ", "A", "I", " ", "L", "i", "n", "k", "e", "d", "I", "n", ")">>
s_q_official == <<" ", "o", "f", "f", "i", "c", "i", "a", "l", " ", "w", "e", "b", "s", "i", "t", "e">>
s_q_company == <<" ", "c", "o", "m", "p", "a", "n", "y">>
s_q_about == <<" ", "a", "b", "o", "u", "t">>
s_q_contact == <<" ", "c", "o", "n", "t", "a", "c", "t">>
s_q_profile == <<" ", "p", "r", "o", "f", "i", "l", "e">>

(* ------------- analyze_company_data as one synchronous call ------------ *)

\* line 201 or 208 is reached for the field: the loop calls _openai_fill_field for it
needs_fill(g_data, l_data, field) ==
    LET g_val == get(g_data, field, Str(s_NA))
        l_val == get(l_data, field, Str(s_NA))
    IN  IF is_multi_value(field)
        THEN LET combined == combine_multiple_values(g_val, l_val)
             IN  ~(truthy(combined) /\ ~is_missing_or_incorrect(combined, field))
        ELSE is_missing_or_incorrect(g_val, field) /\ is_missing_or_incorrect(l_val, field)

\* lines 192-208: the value the loop stores for a field when every generative call of
\* the run has the given outcome
fuse_field_value(g_data, l_data, field, outcome) ==
    LET g_val == get(g_data, field, Str(s_NA))
        l_val == get(l_data, field, Str(s_NA))
    IN  IF needs_fill(g_data, l_data, field) THEN fill_field_value(outcome)
        ELSE IF is_multi_value(field) THEN combine_multiple_values(g_val, l_val)
        ELSE IF ~is_missing_or_incorrect(g_val, field) THEN g_val
        ELSE l_val

\* the keys the loop fuses: all_fields without the country keys
loop_fields(g_data, l_data) == {f \in DOMAIN g_data \cup DOMAIN l_data : ~is_country(f)}

\* analyze_company_data(google_data, linkedin_data) when it returns
analyze_company_data(g_data, l_data, outcome) ==
    [f \in loop_fields(g_data, l_data) \cup {k_country, k_industry_type} |->
        IF f = k_industry_type THEN select_industry_value(outcome)
        ELSE IF f = k_country THEN fill_field_value(outcome)
        ELSE fuse_field_value(g_data, l_data, f, outcome)]

\* analyze_company_data raises: the first _openai_fill_field call (there is always the
\* one for country) fails before its try block
analyze_raises(g_data, l_data) ==
    ~api_key \/ stringify_raises(g_data) \/ stringify_raises(l_data)

\* the step-by-step run and the one-call form agree on the returned record
EngineFormsAgree ==
    (pc = "done" /\ \A i \in 1..Len(calls) : calls[i].outcome = calls[1].outcome) =>
        result = analyze_company_data(google_data, linkedin_data, calls[1].outcome)

(* ---------------------- the two source collaborators ------------------- *)

\* the keys both collaborators put in a record
SourceKeys ==
    {k_CompanyName, k_Description, k_Address, k_State, k_PostalCode,
     k_Phone, k_Email, k_Employees, k_Website}

\* GoogleResearcherAgent._empty_result(company_name)
google_empty_result(company_name) ==
    [f \in SourceKeys |->
        IF f = k_CompanyName THEN Str(company_name)
        ELSE IF f = k_Description THEN Str(s_NoInfoPrefix \o company_name \o s_dot)
        ELSE Str(s_NA)]

\* the record fetch_company_data returns when the searches gave results: the description
\* is the cleaned snippets, the website is the first link, and the contact values are
\* what _extract_from_website found in the page, "N/A" each when the fetch raised
google_found_result(company_name, page) ==
    [f \in SourceKeys |->
        CASE f = k_CompanyName -> Str(company_name)
          [] f = k_Description -> Str(v_snippet)
          [] f = k_Website     -> Str(v_acme_com)
          [] f = k_Email       -> IF page = "html" THEN Str(v_contact) ELSE Str(s_NA)
          [] f = k_Phone       -> IF page = "html" THEN Str(v_phone_ok) ELSE Str(s_NA)
          [] OTHER             -> Str(s_NA)]

\* the five queries of _google_search, in the order of the list
queries(company_name) ==
    <<company_name \o s_q_official, company_name \o s_q_company, company_name \o s_q_about,
      company_name \o s_q_contact, company_name \o s_q_profile>>

\* RelevanceAIResearcherAgent._create_empty_result(company_name)
create_empty_result(company_name) ==
    [f \in SourceKeys |->
        IF f = k_CompanyName THEN Str(company_name)
        ELSE IF f = k_Description THEN Str(s_NotFoundRelevance)
        ELSE Str(s_NA)]

\* the key of the reply body that feeds a key of the record
json_key(f) ==
    CASE f = k_Description -> k_description
      [] f = k_Address     -> k_address
      [] f = k_State       -> j_state
      [] f = k_PostalCode  -> j_postal_code
      [] f = k_Phone       -> k_phone
      [] f = k_Email       -> j_email
      [] f = k_Employees   -> j_employees
      [] f = k_Website     -> j_website

\* the record built from a status-200 reply body: data.get(key, default) for each key
relevance_result(company_name, data) ==
    [f \in SourceKeys |->
        IF f = k_CompanyName THEN Str(company_name)
        ELSE IF f = k_Description
        THEN get(data, k_description, Str(s_DescriptionFor \o company_name \o s_FromRelevance))
        ELSE get(data, json_key(f), Str(s_NA))]

\* reply bodies of the third-party API: a profile with a list of addresses and a
\* number of employees but no description, and one whose address list holds a null
JsonBodies ==
    {put(put(put(EmptyDict, k_address, List(<<Str(v_main_st), Str(v_oak_ave)>>)),
             j_employees, Num(50)), j_email, Str(v_contact)),
     put(EmptyDict, k_address, List(<<None>>))}

\* what the POST can come back with
PostReplies ==
    {[kind |-> "json", data |-> j] : j \in JsonBodies}
        \cup {[kind |-> "http_error", data |-> EmptyDict],
              [kind |-> "exception", data |-> EmptyDict]}

\* fetch_company_data's return value for a reply
relevance_fetch_result(company_name, reply) ==
    IF reply.kind = "json" THEN relevance_result(company_name, reply.data)
    ELSE create_empty_result(company_name)

(* --------------------- research_company: the result -------------------- *)

RECURSIVE decimal(_)
\* str(k) for a non-negative int
decimal(k) ==
    LET digit == <<"0", "1", "2", "3", "4", "5", "6", "7", "8", "9">>[(k % 10) + 1]
    IN  IF k < 10 THEN <<digit>> ELSE decimal(k \div 10) \o <<digit>>

\* split_field(val)
split_field(val) ==
    IF val.t = "list" THEN val
    ELSE IF val.t = "str"
    THEN LET parts == split(val.s, ";")
             kept  == SelectSeq(parts, LAMBDA p : strip(p) # <<>>)
         IN  List([i \in 1..Len(kept) |-> Str(strip(kept[i]))])
    ELSE None

\* an Optional[str] field of CompanyResearch accepts the value: None and str always,
\* an int only where the validation library converts numbers to text
accepts_str(v) == v.t \in {"none", "str"} \/ (v.t = "int" /\ ~strict_types)

\* an Optional[List[str]] field accepts the value
accepts_list(v) ==
    \/ v.t = "none"
    \/ /\ v.t = "list"
       /\ \A i \in 1..Len(v.l) : v.l[i].t = "str" \/ (v.l[i].t = "int" /\ ~strict_types)

\* the value an Optional[str] field holds once accepted
as_str(v) == IF v.t = "int" THEN Str(decimal(v.n)) ELSE v

\* the value an Optional[List[str]] field holds once accepted
as_list(v) == IF v.t = "list" THEN List([i \in 1..Len(v.l) |-> as_str(v.l[i])]) ELSE v

\* CompanyResearch(company_name=company_name, status="error"): the outer handler's result
error_result(company_name) ==
    [company_name |-> company_name, description |-> None, address |-> None, state |-> None,
     postal_code |-> None, phone |-> None, country |-> None, email |-> None,
     employees |-> None, website |-> None, industry_type |-> None, status |-> "error"]

\* variant: the status does not look at final_data
status_of_always_completed(final_data) == "completed"

\* status="completed" if final_data else "error"
status_of(final_data) == IF final_data # EmptyDict THEN "completed" ELSE "error"

\* step 4 of research_company: the CompanyResearch built from final_data, or the outer
\* handler's result when the constructor rejects a value
build_result(company_name, final_data) ==
    LET s(key) == get(final_data, key, None)
        l(key) == split_field(get(final_data, key, None))
        strs   == {s(k_Description), s(k_State), s(k_PostalCode), s(k_Email),
                   s(k_Employees), s(k_Website), s(k_industry_type), s(k_country)}
    IN  IF (\A v \in strs : accepts_str(v)) /\ accepts_list(l(k_Address)) /\ accepts_list(l(k_Phone))
        THEN [company_name  |-> company_name,
              description   |-> as_str(s(k_Description)),
              address       |-> as_list(l(k_Address)),
              state         |-> as_str(s(k_State)),
              postal_code   |-> as_str(s(k_PostalCode)),
              phone         |-> as_list(l(k_Phone)),
              country       |-> as_str(s(k_country)),
              email         |-> as_str(s(k_Email)),
              employees     |-> as_str(s(k_Employees)),
              website       |-> as_str(s(k_Website)),
              industry_type |-> as_str(s(k_industry_type)),
              status        |-> status_of(final_data)]
        ELSE error_result(company_name)

(* ------------------ research_company as a coroutine -------------------- *)

\* number of company names in a batch
MaxBatch == 2

\* names a batch is drawn from
CompanyNames == <<v_Acme, v_Globex, v_Initech>>

\* how the generative service behaves during one analyze_company_data call
GenModes == {"answers", "fails", "hangs"}

\* the outcome of each generative call of a run that returns
gen_outcome(mode) ==
    IF mode = "answers" THEN [ok |-> TRUE, text |-> <<" ">> \o v_contact \o <<"\n">>]
    ELSE [ok |-> FALSE, text |-> <<>>]

\* what one search request can come back with: items, no items, or an exception
SearchReplies == {"items", "none", "error"}

\* what the website fetch can come back with
PageReplies == {"html", "exception"}

\* an upstream request, as logged per coroutine
request(kind, key) == [kind |-> kind, key |-> key]

\* research_company(name) before its first step
new_coroutine(company_name) ==
    [name |-> company_name, pc |-> "created", q |-> 0, found |-> FALSE,
     g_state |-> "unset", l_state |-> "unset",
     google_data |-> EmptyDict, linkedin_data |-> EmptyDict,
     engine |-> "not_started", final_data |-> EmptyDict,
     research_result |-> [error_result(company_name) EXCEPT !.status = "pending"],
     requests |-> <<>>]

\* the order in which the loop of analyze_company_data visits the source keys
FieldOrder ==
    <<k_CompanyName, k_Description, k_Address, k_State, k_PostalCode,
      k_Phone, k_Email, k_Employees, k_Website>>

\* the generative requests of one analyze_company_data call that returns: one per
\* fused field that needs it, one for country, one for the industry
engine_requests(g_data, l_data) ==
    LET keys   == loop_fields(g_data, l_data)
        filled == SelectSeq(FieldOrder, LAMBDA f : f \in keys /\ needs_fill(g_data, l_data, f))
    IN  [i \in 1..Len(filled) |-> request("fill", filled[i])]
            \o <<request("fill", k_country), request("industry", k_industry_type)>>

\* step 3 and step 4 of research_company, run without an await in between: the
\* synchronous analyze_company_data call, then the result; a generative call that
\* never returns leaves the coroutine inside the call
run_engine(cr, mode) ==
    LET g_data == cr.google_data
        l_data == cr.linkedin_data
        started == [cr EXCEPT !.engine = "started"]
    IN  IF analyze_raises(g_data, l_data)
        THEN [started EXCEPT !.engine = "raised", !.final_data = EmptyDict, !.pc = "returned",
                             !.research_result = build_result(cr.name, EmptyDict)]
        ELSE IF mode = "hangs"
        THEN [started EXCEPT !.engine = "hung", !.pc = "engine_hung",
                             !.requests = Append(@, engine_requests(g_data, l_data)[1])]
        ELSE LET final_data == analyze_company_data(g_data, l_data, gen_outcome(mode))
             IN  [started EXCEPT !.engine = "returned", !.final_data = final_data,
                                 !.pc = "returned",
                                 !.requests = @ \o engine_requests(g_data, l_data),
                                 !.research_result = build_result(cr.name, final_data)]

\* variant: the third-party lookup is started but not awaited before the engine runs
enter_linkedin_not_awaited(cr, mode) ==
    run_engine([cr EXCEPT !.l_state = "pending",
                          !.requests = Append(@, request("post", cr.name))], mode)

\* step 2 of research_company up to its await: the collaborator's constructor raises
\* when its tokens are not configured, the handler sets linkedin_data = {} and the
\* engine runs; otherwise the POST is issued and the coroutine waits for the reply
enter_linkedin(cr, mode) ==
    IF ~relevance_token
    THEN run_engine([cr EXCEPT !.linkedin_data = EmptyDict, !.l_state = "failed"], mode)
    ELSE [cr EXCEPT !.pc = "post", !.l_state = "pending",
                    !.requests = Append(@, request("post", cr.name))]

\* how often a request is in a log
times_issued(requests, r) == Cardinality({i \in 1..Len(requests) : requests[i] = r})

\* variant: a search that raised is tried once more
next_query_retry_once(cr, outcome) ==
    IF outcome = "error" /\ times_issued(cr.requests, request("search", queries(cr.name)[cr.q])) < 2
    THEN cr.q ELSE cr.q + 1

\* for query in queries: the index of the query after the one that was answered
next_query(cr, outcome) == cr.q + 1

\* the engine variables of the single-call specifications, unused by a batch
engine_vars == <<pc, google_data, linkedin_data, pending, result, origin, calls, args, ret>>

\* research_company_endpoint has its list of names and has created one coroutine per
\* name for asyncio.gather; the environment settings are fixed for the whole run
InitBatch ==
    /\ pc = "batch"
    /\ api_key \in BOOLEAN
    /\ google_data = EmptyDict
    /\ linkedin_data = EmptyDict
    /\ pending = {}
    /\ result = EmptyDict
    /\ origin = EmptyDict
    /\ calls = <<>>
    /\ args = <<>>
    /\ ret = None
    /\ \E n \in 1..MaxBatch : names = [i \in 1..n |-> CompanyNames[((i - 1) % Len(CompanyNames)) + 1]]
    /\ relevance_token \in BOOLEAN
    /\ strict_types \in BOOLEAN
    /\ co = [i \in 1..Len(names) |-> new_coroutine(names[i])]
    /\ blocked = 0
    /\ response = [sent |-> FALSE, results |-> <<>>]

\* the event loop runs coroutine c up to its next await: it may do so when no
\* coroutine is inside a synchronous call, and every task gathered before c has had
\* its first step
may_run(c) ==
    /\ blocked = 0
    /\ \A j \in 1..Len(co) : (j < c \/ co[c].pc # "created") => co[j].pc # "created"

\* coroutine c has run up to its next await, or into a call that does not return
resume(c, cr) ==
    /\ co' = [co EXCEPT ![c] = cr]
    /\ blocked' = IF cr.pc = "engine_hung" THEN c ELSE 0
    /\ UNCHANGED <<names, relevance_token, strict_types, response, api_key>>
    /\ UNCHANGED engine_vars

\* first step of research_company: step 1 up to the first search request
start(c) ==
    /\ co[c].pc = "created"
    /\ may_run(c)
    /\ resume(c, [co[c] EXCEPT !.pc = "search", !.q = 1, !.g_state = "pending",
                               !.requests = Append(@, request("search", queries(co[c].name)[1]))])

\* a search request of c is answered: the next query is issued, or after the last one
\* fetch_company_data returns _empty_result when nothing was found and fetches the
\* website otherwise
search_reply(c) ==
    /\ co[c].pc = "search"
    /\ may_run(c)
    /\ \E outcome \in SearchReplies, mode \in (IF relevance_token THEN {"answers"} ELSE GenModes) :
        LET cr    == co[c]
            found == cr.found \/ outcome = "items"
            q     == next_query(cr, outcome)
        IN  resume(c,
                IF q <= Len(queries(cr.name))
                THEN [cr EXCEPT !.q = q, !.found = found,
                                !.requests = Append(@, request("search", queries(cr.name)[q]))]
                ELSE IF ~found
                THEN enter_linkedin([cr EXCEPT !.found = found, !.g_state = "failed",
                                               !.google_data = google_empty_result(cr.name)], mode)
                ELSE [cr EXCEPT !.found = found, !.pc = "website",
                                !.requests = Append(@, request("website", v_acme_com))])

\* the website fetch of c is answered or raises: fetch_company_data returns its record
website_reply(c) ==
    /\ co[c].pc = "website"
    /\ may_run(c)
    /\ \E page \in PageReplies, mode \in (IF relevance_token THEN {"answers"} ELSE GenModes) :
        resume(c, enter_linkedin([co[c] EXCEPT !.g_state = "fetched",
                                     !.google_data = google_found_result(co[c].name, page)], mode))

\* the POST of c is answered or raises: fetch_company_data returns a record and the
\* coroutine goes on, without another await, through the engine to its result
post_reply(c) ==
    /\ co[c].pc = "post"
    /\ may_run(c)
    /\ \E reply \in PostReplies, mode \in GenModes :
        resume(c, run_engine([co[c] EXCEPT
                     !.l_state = IF reply.kind = "json" THEN "fetched" ELSE "failed",
                     !.linkedin_data = relevance_fetch_result(co[c].name, reply)], mode))

\* one step of coroutine c
coroutine_step(c) == start(c) \/ search_reply(c) \/ website_reply(c) \/ post_reply(c)

\* asyncio.gather has every result: the endpoint returns them in the order of the names
gather_return ==
    /\ blocked = 0
    /\ ~response.sent
    /\ \A i \in 1..Len(co) : co[i].pc = "returned"
    /\ response' = [sent |-> TRUE, results |-> [i \in 1..Len(co) |-> co[i].research_result]]
    /\ UNCHANGED <<names, relevance_token, strict_types, co, blocked, api_key>>
    /\ UNCHANGED engine_vars

NextBatch ==
    \/ \E c \in 1..Len(co) : start(c)
    \/ \E c \in 1..Len(co) : search_reply(c)
    \/ \E c \in 1..Len(co) : website_reply(c)
    \/ \E c \in 1..Len(co) : post_reply(c)
    \/ gather_return

SpecBatch == InitBatch /\ [][NextBatch]_vars

BatchTypeOK ==
    /\ blocked \in 0..Len(co)
    /\ \A i \in 1..Len(co) :
        /\ co[i].pc \in {"created", "search", "website", "post", "engine_hung", "returned"}
        /\ co[i].engine \in {"not_started", "raised", "hung", "returned"}
        /\ co[i].g_state \in {"unset", "pending", "fetched", "failed"}
        /\ co[i].l_state \in {"unset", "pending", "fetched", "failed"}

\* C13: whenever analyze_company_data has been invoked for a company, both records it
\* was handed contain every source key, and the record of a lookup that failed holds
\* the sentinel "N/A" under each of the seven contact keys.
C13_EngineGetsEverySourceKey ==
    \A i \in 1..Len(co) :
        co[i].engine # "not_started" =>
            /\ SourceKeys \subseteq DOMAIN co[i].google_data
            /\ SourceKeys \subseteq DOMAIN co[i].linkedin_data
            /\ co[i].g_state = "failed" =>
                 \A f \in SourceKeys \ {k_CompanyName, k_Description} :
                     co[i].google_data[f] = Str(s_NA)
            /\ co[i].l_state = "failed" =>
                 \A f \in SourceKeys \ {k_CompanyName, k_Description} :
                     co[i].linkedin_data[f] = Str(s_NA)

\* C16: while a generative call made for company X does not return, every other
\* company Y of the batch whose research_company has not finished can still take a step.
C16_HangBlocksOnlyItsCompany ==
    \A x \in 1..Len(co), y \in 1..Len(co) :
        (co[x].pc = "engine_hung" /\ y # x /\ co[y].pc # "returned") => ENABLED coroutine_step(y)

\* C17: analyze_company_data has been invoked for a company only if both of its source
\* lookups are settled, each either fetched or failed and replaced by a record; the
\* engine has never started while a lookup of that company is unset or pending.
C17_EngineAfterBothLookups ==
    \A i \in 1..Len(co) :
        co[i].engine # "not_started" =>
            /\ co[i].g_state \in {"fetched", "failed"}
            /\ co[i].l_state \in {"fetched", "failed"}

\* a run where the engine ran after a search lookup that found nothing and an API
\* lookup that was answered
C17_Witness ==
    \E i \in 1..Len(co) :
        /\ co[i].engine = "returned"
        /\ co[i].g_state = "failed"
        /\ co[i].l_state = "fetched"
        /\ \E j \in 1..Len(co[i].requests) : co[i].requests[j].kind = "post"

\* C19: within one run of research_company no upstream request is issued twice: each
\* search query, the website fetch, the API POST, the generative call of each field
\* and the industry call occur at most once in the run's log of requests.
C19_EachRequestAtMostOnce ==
    \A i \in 1..Len(co) :
        \A j \in 1..Len(co[i].requests) : times_issued(co[i].requests, co[i].requests[j]) = 1

\* a finished run in which a search raised or found nothing, the API lookup failed and
\* the generative calls failed, with all five queries, the POST and the calls logged
C19_Witness ==
    \E i \in 1..Len(co) :
        /\ co[i].pc = "returned"
        /\ co[i].g_state = "failed"
        /\ co[i].l_state = "failed"
        /\ co[i].engine = "returned"
        /\ co[i].final_data[k_country] = Str(s_Unknown)
        /\ \A q \in 1..5 : times_issued(co[i].requests, request("search", queries(co[i].name)[q])) = 1
        /\ times_issued(co[i].requests, request("post", co[i].name)) = 1
        /\ times_issued(co[i].requests, request("fill", k_Email)) = 1

\* the data fields of a result are all unset
AllDataFieldsUnset(r) ==
    /\ r.description = None /\ r.address = None /\ r.state = None /\ r.postal_code = None
    /\ r.phone = None /\ r.country = None /\ r.email = None /\ r.employees = None
    /\ r.website = None /\ r.industry_type = None

\* a lookup of the run failed: the searches found nothing, or the API lookup failed
LookupFailed(cr) == cr.g_state = "failed" \/ cr.l_state = "failed"

\* the result research_company(name) gives on its own for the records its lookups
\* produced, under either behaviour of the generative service
OwnResults(cr) ==
    IF analyze_raises(cr.google_data, cr.linkedin_data)
    THEN {build_result(cr.name, EmptyDict)}
    ELSE {build_result(cr.name, analyze_company_data(cr.google_data, cr.linkedin_data,
                                                     gen_outcome(mode))) :
            mode \in {"answers", "fails"}}

\* C20 as stated: the endpoint returns one result per name, in the order of the names,
\* and a company for which a lookup or the engine failed has status 'error' with all
\* data fields unset.
C20_AnyFailureGivesErrorStatus ==
    response.sent =>
        /\ Len(response.results) = Len(names)
        /\ \A i \in 1..Len(names) :
            /\ response.results[i].company_name = names[i]
            /\ (LookupFailed(co[i]) \/ co[i].engine = "raised") =>
                  /\ response.results[i].status = "error"
                  /\ AllDataFieldsUnset(response.results[i])

\* C20, amended: when the endpoint returns, there is one result per name, in the order
\* of the names; each result is the one research_company gives on its own for that
\* company's lookups, whatever happened to the other companies; a company whose
\* analyze_company_data call raised has status 'error' with all data fields unset; every
\* result with status 'error' has all data fields unset; and a company whose lookup
\* failed but whose engine call returned values the result accepts has status 'completed'.
C20_FailuresAreIndependent ==
    response.sent =>
        /\ Len(response.results) = Len(names)
        /\ \A i \in 1..Len(names) :
            LET r == response.results[i]
            IN  /\ r.company_name = names[i]
                /\ r \in OwnResults(co[i])
                /\ r.status \in {"completed", "error"}
                /\ co[i].engine = "raised" => r.status = "error"
                /\ r.status = "error" => AllDataFieldsUnset(r)
                /\ (co[i].engine = "returned" /\ r.country # None) => r.status = "completed"

\* a returned batch of two where the first company's engine call raised, giving status
\* 'error', and the second company's lookups both failed, giving status 'completed'
C20_Witness ==
    /\ response.sent
    /\ Len(response.results) = 2
    /\ co[1].engine = "raised"
    /\ response.results[1].status = "error"
    /\ co[2].g_state = "failed"
    /\ co[2].l_state = "failed"
    /\ response.results[2].status = "completed"
====
